---- MODULE Spec2Model ----
(***************************************************************************)
(* Ledger state machine of the task-reward backend: user balances,         *)
(* withdrawal requests and level upgrades, as the HTTP handlers move them. *)
(* An action is one whole handler run to completion, except in the        *)
(* sections on interleaved requests, where each await is a step, and on    *)
(* rejecting saves and mails, where a handler ends in its catch block.     *)
(***************************************************************************)
EXTENDS Integers, Sequences, FiniteSets, TLC

\* ---------------------------------------------------------------- bounds
Users == {"u1", "u2"}
MaxBalance == 2
MaxWithdrawals == 1
MaxUpgrades == 2
MaxLevel == 2
MaxInstant == 3
MaxTasks == 3
MaxConcurrent == 2
MaxRetries == 4

\* request bodies: amounts (0 stands for a missing/zero amount, which the
\* handlers' `!amount` treats alike), and levels (0 likewise)
Amounts == {-1, 0, 1, 2}
UpgradeAmounts == {0, 1}
LevelInputs == 0..MaxLevel

VARIABLES
  users,          \* User collection: id -> document
  paymentMethods, \* PaymentMethod collection: the users that own a document
  withdrawals,    \* Withdrawal collection, in creation order (index = _id)
  upgrades,       \* Upgrade collection, in creation order (index = _id)
  last,           \* the last request handled and the response it was given
  referrals,      \* Referral collection, in creation order
  now,            \* the server's clock, in instants
  handlers,       \* admin requests in flight: what each has read so far
  requests,       \* user requests in flight: what each has read so far
  transactions,   \* Transaction collection, in creation order
  retry,          \* a call of withRetry: its arguments and how far it has run
  profiles        \* User collection, identity fields: id -> username,
                  \* referralCode, verificationCode

vars == <<users, paymentMethods, withdrawals, upgrades, last, referrals, now, handlers,
          requests, transactions, retry, profiles>>

\* what the ledger handlers below never touch, and what the handlers of the
\* other collections never touch
asideAdmin == <<referrals, now, handlers, requests, retry, profiles>>
aside == <<asideAdmin, transactions>>
added == <<requests, transactions, retry, profiles>>

\* ------------------------------------------------------------ data model
\* models/User.js: defaults of the schema, as POST /signup creates the user
NewUser ==
  [ balance |-> [available |-> 0, pending |-> 0],
    level   |-> 1,
    status  |-> "pending",
    tasksCompleted |-> 0,
    lastTaskDate   |-> 0,      \* 0: not set
    referralBonus  |-> 0,
    invites        |-> 0 ]

\* models/EmailLog: the `type` enum; create() of any other type is a
\* ValidationError
EmailLogTypes == {"verification", "reset-password", "notification"}
EmailLogCreate(type) == type \in EmailLogTypes

\* what the handler `op` answered; id is the Withdrawal/Upgrade the request
\* named or created (0 when there is none) and from the status the handler
\* found that record in ("" when it found none)
Response(op, id, from, code, msg) ==
  [op |-> op, id |-> id, from |-> from, code |-> code, msg |-> msg]

\* admin requests that run as interleaved steps
Admins == {"a1", "a2"}

\* an admin with no request in flight; a request in flight holds the
\* Withdrawal document it has read (status, amount, user) and, once read,
\* the balance of the User document
Idle ==
  [pc |-> "idle", op |-> "", id |-> 0, status |-> "", amount |-> 0, user |-> "",
   available |-> 0, pending |-> 0]

\* user requests that run as interleaved steps
Clients == {"c1", "c2"}

\* a client with no request in flight; a request in flight holds the fields
\* of the User document it has read
NoRequest ==
  [pc |-> "idle", op |-> "", user |-> "", amount |-> 0, reward |-> "", today |-> 0,
   available |-> 0, pending |-> 0, tasksCompleted |-> 0, id |-> 0]

\* no call of withRetry under way
NoCall ==
  [pc |-> "idle", retries |-> 0, delay |-> 0, i |-> 0, calls |-> <<>>, slept |-> <<>>,
   result |-> ""]

\* part_009:946-963: the identity fields of the document POST /signup saves:
\* referralCode is the username; the verification code sent to a user is
\* written as that user's id ("" is no code)
NewProfile(u) ==
  [username |-> u, referralCode |-> u, verificationCode |-> u]

\* adminController:802-809: registerUser saves no verification code
NewProfileRegistered(u) ==
  [username |-> u, referralCode |-> u, verificationCode |-> ""]

Init ==
  /\ users = [u \in Users |-> NewUser]
  /\ paymentMethods = {}
  /\ withdrawals = <<>>
  /\ upgrades = <<>>
  /\ last = Response("none", 0, "", 0, "")
  /\ referrals = <<>>
  /\ now = 0
  /\ handlers = [a \in Admins |-> Idle]
  /\ requests = [c \in Clients |-> NoRequest]
  /\ transactions = <<>>
  /\ retry = NoCall
  /\ profiles = [u \in DOMAIN users |-> NewProfile(u)]

\* the balance fields stay in the window the model explores: up to
\* MaxBalance, and below zero no further than the first negative value
InWindow(n) == n >= -1 /\ n <= MaxBalance

\* -------------------------------------------------------- payment methods
\* userController.addPaymentMethod (a first payment method; a further one
\* changes nothing the handlers read)
addPaymentMethod(u) ==
  /\ UNCHANGED aside
  /\ u \notin paymentMethods
  /\ paymentMethods' = paymentMethods \cup {u}
  /\ last' = Response("addPaymentMethod", 0, "", 201, "Payment method added")
  /\ UNCHANGED <<users, withdrawals, upgrades>>

\* ------------------------------------------------------ POST /withdrawals
\* a slip of the balance check: the sign of the amount is not looked at
InvalidAmountUnsigned(u, amount) ==
  amount > users[u].balance.available

\* part_009:1253: amount <= 0 || amount > user.balance.available
InvalidAmount(u, amount) ==
  amount <= 0 \/ amount > users[u].balance.available

\* a slip of the lookup: any PaymentMethod document is taken, whoever owns it
findAnyPaymentMethod(u) ==
  paymentMethods # {}

\* part_009:1257: PaymentMethod.findOne({ user: user._id }) finds a document
findPaymentMethod(u) ==
  u \in paymentMethods

\* routes/user (part_009:1245): request a withdrawal
RequestWithdrawal(u, amount) ==
  LET op(code, msg) == Response("withdrawal", 0, "", code, msg) IN
  /\ UNCHANGED aside
  /\ IF amount = 0
       THEN /\ last' = op(400, "Amount is required")
            /\ UNCHANGED <<users, paymentMethods, withdrawals, upgrades>>
     ELSE IF InvalidAmount(u, amount)
       THEN /\ last' = op(400, "Insufficient balance or invalid amount")
            /\ UNCHANGED <<users, paymentMethods, withdrawals, upgrades>>
     ELSE IF ~findPaymentMethod(u)
       THEN /\ last' = op(400, "No payment method found")
            /\ UNCHANGED <<users, paymentMethods, withdrawals, upgrades>>
     ELSE
       /\ Len(withdrawals) < MaxWithdrawals
       /\ InWindow(users[u].balance.pending + amount)
       /\ withdrawals' = Append(withdrawals, [user |-> u, amount |-> amount, status |-> "pending"])
       /\ users' = [users EXCEPT ![u].balance.available = @ - amount,
                                 ![u].balance.pending = @ + amount]
       /\ last' = IF EmailLogCreate("withdrawal-request")
                    THEN Response("withdrawal", Len(withdrawals) + 1, "", 201, "Withdrawal request submitted")
                    ELSE Response("withdrawal", Len(withdrawals) + 1, "", 500, "Server error")
       /\ UNCHANGED <<paymentMethods, upgrades>>

\* --------------------------------------------------------- POST /deposits
\* routes/user (part_009:1124): confirm a deposit
ConfirmDeposit(u, amount, type, level) ==
  LET op(id, code, msg) == Response("deposit", id, "", code, msg) IN
  /\ UNCHANGED aside
  /\ IF amount = 0
       THEN /\ last' = op(0, 400, "Amount and type are required")
            /\ UNCHANGED <<users, paymentMethods, withdrawals, upgrades>>
     ELSE IF type = "registration"
       THEN /\ InWindow(users[u].balance.available + amount)
            /\ users' = [users EXCEPT ![u].status = "active",
                                      ![u].balance.available = @ + amount]
            /\ last' = IF EmailLogCreate("registration-payment")
                         THEN op(0, 200, "Payment confirmed")
                         ELSE op(0, 500, "Server error")
            /\ UNCHANGED <<paymentMethods, withdrawals, upgrades>>
     ELSE IF type = "upgrade"
       THEN /\ Len(upgrades) < MaxUpgrades
            /\ upgrades' = Append(upgrades, [user |-> u, level |-> level, amount |-> amount, status |-> "pending"])
            /\ last' = IF EmailLogCreate("upgrade-payment")
                         THEN op(Len(upgrades) + 1, 200, "Payment confirmed")
                         ELSE op(Len(upgrades) + 1, 500, "Server error")
            /\ UNCHANGED <<users, paymentMethods, withdrawals>>
     ELSE /\ last' = op(0, 200, "Payment confirmed")
          /\ UNCHANGED <<users, paymentMethods, withdrawals, upgrades>>

\* ---------------------------------------------------------- POST /upgrade
\* routes/user (part_009:1211): request an upgrade
RequestUpgrade(u, level, amount) ==
  LET op(id, code, msg) == Response("upgrade", id, "", code, msg) IN
  /\ UNCHANGED aside
  /\ IF level = 0 \/ amount = 0
       THEN /\ last' = op(0, 400, "Level and amount are required")
            /\ UNCHANGED <<users, paymentMethods, withdrawals, upgrades>>
     ELSE IF level <= users[u].level
       THEN /\ last' = op(0, 400, "New level must be higher than current level")
            /\ UNCHANGED <<users, paymentMethods, withdrawals, upgrades>>
     ELSE
       /\ Len(upgrades) < MaxUpgrades
       /\ upgrades' = Append(upgrades, [user |-> u, level |-> level, amount |-> amount, status |-> "pending"])
       /\ users' = [users EXCEPT ![u].level = level]
       /\ last' = IF EmailLogCreate("upgrade-request")
                    THEN op(Len(upgrades) + 1, 200, "Upgrade request submitted")
                    ELSE op(Len(upgrades) + 1, 500, "Server error")
       /\ UNCHANGED <<paymentMethods, withdrawals>>

\* ------------------------------------------- adminController: upgrades
\* a slip of approveUpgrade: the level is set, the status is not
ApplyUpgradeLevelOnly(upgrade) ==
  [users EXCEPT ![upgrade.user].level = upgrade.level]

\* adminController:531-534: user.level = upgrade.level; user.status = 'active'
ApplyUpgrade(upgrade) ==
  [users EXCEPT ![upgrade.user].level = upgrade.level,
                ![upgrade.user].status = "active"]

\* adminController.approveUpgrade
approveUpgrade(id) ==
  LET op(code, msg) ==
        Response("approveUpgrade", id, IF id > Len(upgrades) THEN "" ELSE upgrades[id].status, code, msg) IN
  /\ UNCHANGED aside
  /\ IF id > Len(upgrades)
       THEN /\ last' = op(404, "Upgrade not found")
            /\ UNCHANGED <<users, paymentMethods, withdrawals, upgrades>>
     ELSE
       LET upgrade == upgrades[id] IN
       /\ users' = ApplyUpgrade(upgrade)
       /\ upgrades' = [upgrades EXCEPT ![id].status = "approved"]
       /\ last' = IF EmailLogCreate("notification")
                    THEN op(200, "Upgrade approved")
                    ELSE op(500, "Server error")
       /\ UNCHANGED <<paymentMethods, withdrawals>>

\* adminController.rejectUpgrade
rejectUpgrade(id) ==
  LET op(code, msg) ==
        Response("rejectUpgrade", id, IF id > Len(upgrades) THEN "" ELSE upgrades[id].status, code, msg) IN
  /\ UNCHANGED aside
  /\ IF id > Len(upgrades)
       THEN /\ last' = op(404, "Upgrade not found")
            /\ UNCHANGED <<users, paymentMethods, withdrawals, upgrades>>
     ELSE
       /\ upgrades' = [upgrades EXCEPT ![id].status = "rejected"]
       /\ last' = IF EmailLogCreate("notification")
                    THEN op(200, "Upgrade rejected")
                    ELSE op(500, "Server error")
       /\ UNCHANGED <<users, paymentMethods, withdrawals>>

\* ---------------------------------- withdrawal transitions (admin side)
\* The transitions exist in three copies: the handlers of routes/admin.js,
\* of routes/new.js and of adminController.  The copies of approve and of
\* decline make the same reads and writes; adminController's paid differs.

\* balance update of decline: user.balance.available += amount,
\* user.balance.pending -= amount
ReleaseReservation(u, amount) ==
  [users EXCEPT ![u].balance.available = @ + amount,
                ![u].balance.pending = @ - amount]

\* a slip of paid: the amount is taken from available instead of pending
SettleReservationAvailable(u, amount) ==
  [users EXCEPT ![u].balance.available = @ - amount]

\* balance update of paid: user.balance.pending -= amount
SettleReservation(u, amount) ==
  [users EXCEPT ![u].balance.pending = @ - amount]

\* routes/admin.js:65-74 (and :96-105): Transaction.findOne({ user, amount:
\* -withdrawal.amount, type: 'Withdrawal', status: 'pending' }); when there is
\* one, its status is set and it is saved
SyncTransaction(withdrawal, status) ==
  LET found == {i \in 1..Len(transactions) :
                  /\ transactions[i].user = withdrawal.user
                  /\ transactions[i].amount = -withdrawal.amount
                  /\ transactions[i].type = "Withdrawal"
                  /\ transactions[i].status = "pending"}
  IN IF found = {} THEN transactions
     ELSE LET first == CHOOSE i \in found : \A k \in found : i <= k
          IN [transactions EXCEPT ![first].status = status]

\* approve (routes/admin.js:57, and its copies routes/new.js:228 and
\* adminController:414): the current status is not looked at
Approve(id) ==
  LET op(code, msg) ==
        Response("approve", id, IF id > Len(withdrawals) THEN "" ELSE withdrawals[id].status, code, msg) IN
  /\ UNCHANGED asideAdmin
  /\ IF id > Len(withdrawals)
       THEN /\ last' = op(404, "Withdrawal not found")
            /\ UNCHANGED <<users, paymentMethods, withdrawals, upgrades, transactions>>
     ELSE
       /\ transactions' = SyncTransaction(withdrawals[id], "completed")
       /\ withdrawals' = [withdrawals EXCEPT ![id].status = "approved"]
       /\ last' = op(200, "Withdrawal approved")
       /\ UNCHANGED <<users, paymentMethods, upgrades>>

\* decline (routes/admin.js:83, and its copies routes/new.js:267 and
\* adminController:439): the current status is not looked at
Decline(id) ==
  LET op(code, msg) ==
        Response("decline", id, IF id > Len(withdrawals) THEN "" ELSE withdrawals[id].status, code, msg) IN
  /\ UNCHANGED asideAdmin
  /\ IF id > Len(withdrawals)
       THEN /\ last' = op(404, "Withdrawal not found")
            /\ UNCHANGED <<users, paymentMethods, withdrawals, upgrades, transactions>>
     ELSE
       LET withdrawal == withdrawals[id] IN
       /\ InWindow(users[withdrawal.user].balance.available + withdrawal.amount)
       /\ InWindow(users[withdrawal.user].balance.pending - withdrawal.amount)
       /\ users' = ReleaseReservation(withdrawal.user, withdrawal.amount)
       /\ transactions' = SyncTransaction(withdrawals[id], "failed")
       /\ withdrawals' = [withdrawals EXCEPT ![id].status = "declined"]
       /\ last' = op(200, "Withdrawal declined")
       /\ UNCHANGED <<paymentMethods, upgrades>>

\* paid (routes/admin.js:120, and its copy routes/new.js:317)
AdminPaid(id) ==
  LET op(code, msg) ==
        Response("paid", id, IF id > Len(withdrawals) THEN "" ELSE withdrawals[id].status, code, msg) IN
  /\ UNCHANGED aside
  /\ IF id > Len(withdrawals)
       THEN /\ last' = op(404, "Withdrawal not found")
            /\ UNCHANGED <<users, paymentMethods, withdrawals, upgrades>>
     ELSE IF withdrawals[id].status # "approved"
       THEN /\ last' = op(400, "Must be approved first")
            /\ UNCHANGED <<users, paymentMethods, withdrawals, upgrades>>
     ELSE
       LET withdrawal == withdrawals[id] IN
       /\ InWindow(users[withdrawal.user].balance.pending - withdrawal.amount)
       /\ withdrawals' = [withdrawals EXCEPT ![id].status = "paid"]
       /\ users' = SettleReservation(withdrawal.user, withdrawal.amount)
       /\ last' = op(200, "Withdrawal marked as paid")
       /\ UNCHANGED <<paymentMethods, upgrades>>

\* adminController.markWithdrawalAsPaid: no status check, no balance update
markWithdrawalAsPaid(id) ==
  LET op(code, msg) ==
        Response("paid", id, IF id > Len(withdrawals) THEN "" ELSE withdrawals[id].status, code, msg) IN
  /\ UNCHANGED aside
  /\ IF id > Len(withdrawals)
       THEN /\ last' = op(404, "Withdrawal not found")
            /\ UNCHANGED <<users, paymentMethods, withdrawals, upgrades>>
     ELSE
       /\ withdrawals' = [withdrawals EXCEPT ![id].status = "paid"]
       /\ last' = op(200, "Withdrawal marked as paid")
       /\ UNCHANGED <<users, paymentMethods, upgrades>>

\* routes/admin.js: POST /withdrawals/:id/approve, /decline
AdminApprove(id) == Approve(id)
AdminDecline(id) == Decline(id)

\* adminController.approveWithdrawal, adminController.declineWithdrawal
approveWithdrawal(id) == Approve(id)
declineWithdrawal(id) == Decline(id)

\* ------------------------------------------------------------ POST /signup
\* Names a signup can ask for, and the referral codes a signup can carry: the
\* code of a user is written as that user's name ("" stands for no code;
\* "undefined" is the string the handlers compare with; the name of a user
\* who has not signed up is a code that resolves to nobody).  The other
\* fields of the body are well-formed.
Usernames == Users \cup {"u3"}
ReferralCodes == Usernames \cup {"", "undefined"}

\* part_009:978: referrer.referralBonus += 1000
ReferralBonus == 1000

\* part_009:978-979: referrer.referralBonus += 1000; referrer.invites += 1
CreditReferrer(doc) ==
  [doc EXCEPT !.referralBonus = @ + ReferralBonus, !.invites = @ + 1]

\* routes/new.js:94: referrer.invites += 1 (no bonus is paid)
CountInviteOnly(doc) ==
  [doc EXCEPT !.invites = @ + 1]

\* newUser.save(), then the referrer's update when there is one
\* (referredBy = "" when there is none)
SaveNewUser(username, referredBy) ==
  [v \in DOMAIN users \cup {username} |->
     IF v = username THEN NewUser
     ELSE IF v = referredBy THEN CreditReferrer(users[v])
     ELSE users[v]]

\* models/User.js:80-90 (referralSchema): the fields of the schema, all
\* others are dropped; referrer and referredUser are required
ReferralFields == {"referrer", "referredUser", "bonus", "earnings", "verified", "suspicious"}
ReferralValid(doc) ==
  {"referrer", "referredUser"} \subseteq (DOMAIN doc \cap ReferralFields)

\* routes/user (part_009:909): signup; an unknown referral code is refused,
\* the string "undefined" is taken as no code
Signup(username, referralCode) ==
  LET op(code, msg) == Response("signup", 0, "", code, msg)
      referredBy == IF referralCode # "" /\ referralCode # "undefined" THEN referralCode ELSE ""
  IN
  /\ UNCHANGED <<paymentMethods, withdrawals, upgrades, referrals, now, handlers, requests, transactions, retry>>
  /\ IF username \in DOMAIN users
       THEN /\ last' = op(400, "Username already exists or is used as a referral code")
            /\ UNCHANGED users
     ELSE IF referredBy # "" /\ referredBy \notin DOMAIN users
       THEN /\ last' = op(400, "Invalid referral code")
            /\ UNCHANGED users
     ELSE IF EmailLogCreate("verification")
       THEN /\ users' = SaveNewUser(username, referredBy)
            /\ last' = op(201, "User registered")
     ELSE /\ users' = SaveNewUser(username, "")
          /\ last' = op(500, "Server error. Please try again.")
  /\ profiles' = [v \in DOMAIN users' |->
                    IF v \in DOMAIN profiles THEN profiles[v] ELSE NewProfile(v)]

\* adminController.registerUser: the same referral handling
registerUser(username, referralCode) ==
  LET op(code, msg) == Response("registerUser", 0, "", code, msg)
      referredBy == IF referralCode # "" /\ referralCode # "undefined" THEN referralCode ELSE ""
  IN
  /\ UNCHANGED <<paymentMethods, withdrawals, upgrades, referrals, now, handlers, requests, transactions, retry>>
  /\ IF username \in DOMAIN users
       THEN /\ last' = op(400, "Username already exists or is used as a referral code")
            /\ UNCHANGED users
     ELSE IF referredBy # "" /\ referredBy \notin DOMAIN users
       THEN /\ last' = op(400, "Invalid referral code")
            /\ UNCHANGED users
     ELSE /\ users' = SaveNewUser(username, referredBy)
          /\ last' = op(201, "User registered successfully")
  /\ profiles' = [v \in DOMAIN users' |->
                    IF v \in DOMAIN profiles THEN profiles[v] ELSE NewProfileRegistered(v)]

\* routes/user, earlier copy (part_010:52): a referral code that resolves to
\* nobody is ignored and the user is created
SignupLenient(username, referralCode) ==
  LET op(code, msg) == Response("signupLenient", 0, "", code, msg)
      referredBy == IF referralCode # "" /\ referralCode \in DOMAIN users THEN referralCode ELSE ""
  IN
  /\ UNCHANGED <<paymentMethods, withdrawals, upgrades, referrals, now, handlers, requests, transactions, retry>>
  /\ IF username \in DOMAIN users
       THEN /\ last' = op(400, "Email or username already exists")
            /\ UNCHANGED users
     ELSE IF EmailLogCreate("verification")
       THEN /\ users' = SaveNewUser(username, referredBy)
            /\ last' = op(201, "User registered")
     ELSE /\ users' = SaveNewUser(username, "")
          /\ last' = op(500, "Server error. Please try again.")
  /\ profiles' = [v \in DOMAIN users' |->
                    IF v \in DOMAIN profiles THEN profiles[v] ELSE NewProfile(v)]

\* routes/new.js:41 (and routes/task.js:114): signup that writes a Referral
\* record {referrer, referred} before it counts the invitation
SignupReferral(username, referralCode) ==
  LET op(code, msg) == Response("signupReferral", 0, "", code, msg)
      referral == [referrer |-> referralCode, referred |-> username]
  IN
  /\ UNCHANGED <<paymentMethods, withdrawals, upgrades, now, handlers, requests, transactions, retry>>
  /\ IF username \in DOMAIN users
       THEN /\ last' = op(400, "Email or username already exists")
            /\ UNCHANGED <<users, referrals>>
     ELSE IF referralCode # "" /\ referralCode \notin DOMAIN users
       THEN /\ last' = op(400, "Invalid referral code")
            /\ UNCHANGED <<users, referrals>>
     ELSE IF referralCode # "" /\ ~ReferralValid(referral)
       THEN /\ users' = SaveNewUser(username, "")
            /\ last' = op(500, "Server error. Please try again.")
            /\ UNCHANGED referrals
     ELSE IF referralCode # ""
       THEN /\ referrals' = Append(referrals, referral)
            /\ users' = [v \in DOMAIN users \cup {username} |->
                           IF v = username THEN NewUser
                           ELSE IF v = referralCode THEN CountInviteOnly(users[v])
                           ELSE users[v]]
            /\ last' = op(201, "User registered")
     ELSE /\ users' = SaveNewUser(username, "")
          /\ last' = op(201, "User registered")
          /\ UNCHANGED referrals
  /\ profiles' = [v \in DOMAIN users' |->
                    IF v \in DOMAIN profiles THEN profiles[v] ELSE NewProfile(v)]

\* ------------------------------------------------------------- POST /tasks
\* The clock: InstantsPerDay instants fall on one calendar date, so that two
\* requests can come at different instants of the same date.
InstantsPerDay == 2

\* part_009:1301: new Date().toISOString().split('T')[0], the calendar date
\* of an instant (dates are numbered from 1; 0 is a lastTaskDate never set)
ISODate(t) == (t \div InstantsPerDay) + 1

\* time passes
Tick ==
  /\ now < MaxInstant
  /\ now' = now + 1
  /\ UNCHANGED <<users, paymentMethods, withdrawals, upgrades, last, referrals, handlers, added>>

\* req.body.reward as the client writes it: numbers, and a hexadecimal
\* string, which Number() and parseFloat() read differently
Rewards == {"-1", "0", "1", "2", "0x1"}

\* the value the comparisons `!reward`, isNaN(reward), reward <= 0 see
ToNumber(reward) ==
  CASE reward = "-1" -> -1
    [] reward = "0" -> 0
    [] reward = "1" -> 1
    [] reward = "2" -> 2
    [] reward = "0x1" -> 1

\* parseFloat(reward): reads the longest decimal prefix
parseFloat(reward) ==
  CASE reward = "-1" -> -1
    [] reward = "0" -> 0
    [] reward = "1" -> 1
    [] reward = "2" -> 2
    [] reward = "0x1" -> 0

\* part_008:333 (and part_009:442, 843): user.balance.available += 500
TaskReward == 500

\* routes/user (part_009:1290): complete a task, once per calendar date
CompleteTask(u, reward) ==
  LET op(code, msg) == Response("task", 0, "", code, msg)
      today == ISODate(now)
  IN
  /\ UNCHANGED <<paymentMethods, withdrawals, upgrades, referrals, now, handlers, added>>
  /\ IF ToNumber(reward) <= 0
       THEN /\ last' = op(400, "Valid reward amount is required")
            /\ UNCHANGED users
     ELSE IF users[u].lastTaskDate = today
       THEN /\ last' = op(400, "Task already completed today")
            /\ UNCHANGED users
     ELSE
       /\ users[u].tasksCompleted < MaxTasks
       /\ users' = [users EXCEPT ![u].tasksCompleted = @ + 1,
                                 ![u].balance.available = @ + parseFloat(reward),
                                 ![u].lastTaskDate = today]
       /\ last' = op(200, "Task completed")

\* routes/user, earlier copies (part_008:327, part_009:437, part_009:837):
\* complete a task for the fixed reward; no date is looked at or recorded
CompleteTaskFixed(u) ==
  /\ UNCHANGED <<paymentMethods, withdrawals, upgrades, referrals, now, handlers, added>>
  /\ users[u].tasksCompleted < MaxTasks
  /\ users' = [users EXCEPT ![u].tasksCompleted = @ + 1,
                            ![u].balance.available = @ + TaskReward]
  /\ last' = Response("taskFixed", 0, "", 200, "Task completed successfully")

\* ------------------------- admin transitions as interleaved reads and writes
\* Each await of a handler is a step of its own: what a request has read
\* stays with it while other requests run.  save() writes the values the
\* handler computed from the documents it read.

\* routes/admin.js:59 and :85: Withdrawal.findById(req.params.id)
Receive(a, op, id) ==
  /\ handlers[a].pc = "idle"
  /\ UNCHANGED <<users, paymentMethods, withdrawals, upgrades, referrals, now, added>>
  /\ IF id > Len(withdrawals)
       THEN /\ last' = Response(op, id, "", 404, "Withdrawal not found")
            /\ UNCHANGED handlers
     ELSE /\ handlers' = [handlers EXCEPT ![a] =
                 [pc |-> "found", op |-> op, id |-> id,
                  status |-> withdrawals[id].status,
                  amount |-> withdrawals[id].amount,
                  user |-> withdrawals[id].user,
                  available |-> 0, pending |-> 0]]
          /\ UNCHANGED last

\* routes/admin.js:62-77: withdrawal.status = 'approved'; save(); respond
ApproveSave(a) ==
  /\ handlers[a].pc = "found" /\ handlers[a].op = "approve"
  /\ transactions' = SyncTransaction(withdrawals[handlers[a].id], "completed")
  /\ withdrawals' = [withdrawals EXCEPT ![handlers[a].id].status = "approved"]
  /\ last' = Response("approve", handlers[a].id, handlers[a].status, 200, "Withdrawal approved")
  /\ handlers' = [handlers EXCEPT ![a] = Idle]
  /\ UNCHANGED <<users, paymentMethods, upgrades, referrals, now, requests, retry, profiles>>

\* routes/admin.js:88: User.findById(withdrawal.user._id)
DeclineReadUser(a) ==
  /\ handlers[a].pc = "found" /\ handlers[a].op = "decline"
  /\ handlers' = [handlers EXCEPT ![a].pc = "userRead",
                                  ![a].available = users[handlers[a].user].balance.available,
                                  ![a].pending = users[handlers[a].user].balance.pending]
  /\ UNCHANGED <<users, paymentMethods, withdrawals, upgrades, last, referrals, now, added>>

\* routes/admin.js:89-91: balance.available += amount; balance.pending -=
\* amount on the document read; user.save()
DeclineSaveUser(a) ==
  LET h == handlers[a] IN
  /\ h.pc = "userRead"
  /\ InWindow(h.available + h.amount)
  /\ InWindow(h.pending - h.amount)
  /\ users' = [users EXCEPT ![h.user].balance.available = h.available + h.amount,
                            ![h.user].balance.pending = h.pending - h.amount]
  /\ handlers' = [handlers EXCEPT ![a].pc = "userSaved"]
  /\ UNCHANGED <<paymentMethods, withdrawals, upgrades, last, referrals, now, added>>

\* routes/admin.js:93-114: withdrawal.status = 'declined'; save(); respond
DeclineSave(a) ==
  /\ handlers[a].pc = "userSaved"
  /\ transactions' = SyncTransaction(withdrawals[handlers[a].id], "failed")
  /\ withdrawals' = [withdrawals EXCEPT ![handlers[a].id].status = "declined"]
  /\ last' = Response("decline", handlers[a].id, handlers[a].status, 200, "Withdrawal declined")
  /\ handlers' = [handlers EXCEPT ![a] = Idle]
  /\ UNCHANGED <<users, paymentMethods, upgrades, referrals, now, requests, retry, profiles>>

\* -------------------------- user requests as interleaved reads and writes
\* part_009:1292-1305: the checks of POST /tasks and its User.findById
TaskRead(c, u, reward) ==
  LET op(code, msg) == Response("task", 0, "", code, msg)
      today == ISODate(now)
  IN
  /\ requests[c].pc = "idle"
  /\ UNCHANGED <<users, paymentMethods, withdrawals, upgrades, referrals, now, handlers,
                 transactions, retry, profiles>>
  /\ IF ToNumber(reward) <= 0
       THEN /\ last' = op(400, "Valid reward amount is required")
            /\ UNCHANGED requests
     ELSE IF users[u].lastTaskDate = today
       THEN /\ last' = op(400, "Task already completed today")
            /\ UNCHANGED requests
     ELSE /\ requests' = [requests EXCEPT ![c] =
                 [NoRequest EXCEPT !.pc = "taskRead", !.op = "task", !.user = u,
                                   !.reward = reward, !.today = today,
                                   !.available = users[u].balance.available,
                                   !.pending = users[u].balance.pending,
                                   !.tasksCompleted = users[u].tasksCompleted]]
          /\ UNCHANGED last

\* part_009:1307-1310: the three fields are set on the document read and
\* user.save() writes them
TaskSave(c) ==
  LET r == requests[c] IN
  /\ r.pc = "taskRead"
  /\ r.tasksCompleted < MaxTasks
  /\ InWindow(r.available + parseFloat(r.reward))
  /\ users' = [users EXCEPT ![r.user].tasksCompleted = r.tasksCompleted + 1,
                            ![r.user].balance.available = r.available + parseFloat(r.reward),
                            ![r.user].lastTaskDate = r.today]
  /\ last' = Response("task", 0, "", 200, "Task completed")
  /\ requests' = [requests EXCEPT ![c] = NoRequest]
  /\ UNCHANGED <<paymentMethods, withdrawals, upgrades, referrals, now, handlers,
                 transactions, retry, profiles>>

\* part_009:1247-1255: the checks of POST /withdrawals and its User.findById
WithdrawRead(c, u, amount) ==
  LET op(code, msg) == Response("withdrawal", 0, "", code, msg) IN
  /\ requests[c].pc = "idle"
  /\ UNCHANGED <<users, paymentMethods, withdrawals, upgrades, referrals, now, handlers,
                 transactions, retry, profiles>>
  /\ IF amount = 0
       THEN /\ last' = op(400, "Amount is required")
            /\ UNCHANGED requests
     ELSE IF InvalidAmount(u, amount)
       THEN /\ last' = op(400, "Insufficient balance or invalid amount")
            /\ UNCHANGED requests
     ELSE /\ requests' = [requests EXCEPT ![c] =
                 [NoRequest EXCEPT !.pc = "userRead", !.op = "withdrawal", !.user = u,
                                   !.amount = amount,
                                   !.available = users[u].balance.available,
                                   !.pending = users[u].balance.pending,
                                   !.tasksCompleted = users[u].tasksCompleted]]
          /\ UNCHANGED last

\* part_009:1257-1267: PaymentMethod.findOne, new Withdrawal, withdrawal.save()
WithdrawSave(c) ==
  LET r == requests[c] IN
  /\ r.pc = "userRead"
  /\ UNCHANGED <<users, paymentMethods, upgrades, referrals, now, handlers,
                 transactions, retry, profiles>>
  /\ IF ~findPaymentMethod(r.user)
       THEN /\ last' = Response("withdrawal", 0, "", 400, "No payment method found")
            /\ requests' = [requests EXCEPT ![c] = NoRequest]
            /\ UNCHANGED withdrawals
     ELSE /\ Len(withdrawals) < MaxConcurrent
          /\ withdrawals' = Append(withdrawals, [user |-> r.user, amount |-> r.amount, status |-> "pending"])
          /\ requests' = [requests EXCEPT ![c].pc = "saved", ![c].id = Len(withdrawals) + 1]
          /\ UNCHANGED last

\* part_009:1269-1281: balance.available -= amount; balance.pending += amount
\* on the document read; user.save(); the mail, the EmailLog, the response
WithdrawSaveUser(c) ==
  LET r == requests[c] IN
  /\ r.pc = "saved"
  /\ InWindow(r.pending + r.amount)
  /\ users' = [users EXCEPT ![r.user].balance.available = r.available - r.amount,
                            ![r.user].balance.pending = r.pending + r.amount]
  /\ last' = IF EmailLogCreate("withdrawal-request")
               THEN Response("withdrawal", r.id, "", 201, "Withdrawal request submitted")
               ELSE Response("withdrawal", r.id, "", 500, "Server error")
  /\ requests' = [requests EXCEPT ![c] = NoRequest]
  /\ UNCHANGED <<paymentMethods, withdrawals, upgrades, referrals, now, handlers,
                 transactions, retry, profiles>>

\* ------------------------------------------ handlers whose save() rejects
\* The two writes of a withdrawal transition are separate awaits; either can
\* reject (withRetry gives up after its last attempt) and the handler's catch
\* answers.  What was saved before stays saved.
Saves == {"withdrawal.save", "user.save"}

\* part_009:1260-1271 and the catch at :1283: the request passed its checks
\* and the save named `failed` rejects
RequestWithdrawalFault(u, amount, failed) ==
  /\ UNCHANGED aside
  /\ amount # 0 /\ ~InvalidAmount(u, amount) /\ findPaymentMethod(u)
  /\ IF failed = "withdrawal.save"
       THEN /\ last' = Response("withdrawal", 0, "", 500, "Server error")
            /\ UNCHANGED <<users, paymentMethods, withdrawals, upgrades>>
     ELSE /\ Len(withdrawals) < MaxWithdrawals
          /\ withdrawals' = Append(withdrawals, [user |-> u, amount |-> amount, status |-> "pending"])
          /\ last' = Response("withdrawal", Len(withdrawals) + 1, "", 500, "Server error")
          /\ UNCHANGED <<users, paymentMethods, upgrades>>

\* routes/admin.js:88-94 and the catch at :115: user.save() comes first
DeclineFault(id, failed) ==
  LET withdrawal == withdrawals[id] IN
  /\ UNCHANGED aside
  /\ id <= Len(withdrawals)
  /\ last' = Response("decline", id, withdrawal.status, 400, "save failed")
  /\ IF failed = "user.save"
       THEN UNCHANGED <<users, paymentMethods, withdrawals, upgrades>>
     ELSE /\ InWindow(users[withdrawal.user].balance.available + withdrawal.amount)
          /\ InWindow(users[withdrawal.user].balance.pending - withdrawal.amount)
          /\ users' = ReleaseReservation(withdrawal.user, withdrawal.amount)
          /\ UNCHANGED <<paymentMethods, withdrawals, upgrades>>

\* routes/new.js:323-328 (routes/admin.js:126-131) and the catch:
\* withdrawal.save() comes first
PaidFault(id, failed) ==
  /\ UNCHANGED aside
  /\ id <= Len(withdrawals)
  /\ withdrawals[id].status = "approved"
  /\ last' = Response("paid", id, "approved", 400, "save failed")
  /\ IF failed = "withdrawal.save"
       THEN UNCHANGED <<users, paymentMethods, withdrawals, upgrades>>
     ELSE /\ withdrawals' = [withdrawals EXCEPT ![id].status = "paid"]
          /\ UNCHANGED <<users, paymentMethods, upgrades>>

\* ------------------------------------------- handlers whose mail is not sent
\* part_004:4-41: sendEmail awaits transporter.sendMail inside a try whose
\* catch logs the error and throws it again
sendEmail(delivered) ==
  IF delivered THEN "resolved" ELSE "rejected"

\* routes/user, earlier copy (part_008:202): confirm a deposit; the mail is
\* sent before user.save(), and the body is not checked
DepositEarlier(u, amount, type, level, delivered) ==
  LET op(id, code, msg) == Response("depositEarlier", id, "", code, msg) IN
  /\ UNCHANGED aside
  /\ IF type = "registration"
       THEN IF sendEmail(delivered) = "rejected"
              THEN /\ last' = op(0, 500, "Server error")
                   /\ UNCHANGED <<users, paymentMethods, withdrawals, upgrades>>
              ELSE /\ InWindow(users[u].balance.available + amount)
                   /\ users' = [users EXCEPT ![u].status = "active",
                                             ![u].balance.available = @ + amount]
                   /\ last' = op(0, 200, "Payment confirmed")
                   /\ UNCHANGED <<paymentMethods, withdrawals, upgrades>>
     ELSE IF type = "upgrade"
       THEN /\ Len(upgrades) < MaxUpgrades
            /\ upgrades' = Append(upgrades, [user |-> u, level |-> level, amount |-> amount, status |-> "pending"])
            /\ last' = IF sendEmail(delivered) = "rejected"
                         THEN op(Len(upgrades) + 1, 500, "Server error")
                         ELSE op(Len(upgrades) + 1, 200, "Payment confirmed")
            /\ UNCHANGED <<users, paymentMethods, withdrawals>>
     ELSE /\ last' = op(0, 200, "Payment confirmed")
          /\ UNCHANGED <<users, paymentMethods, withdrawals, upgrades>>

\* adminController.approveUpgrade when transporter.sendMail (:543) rejects:
\* the user and the upgrade are saved by then, the catch answers
approveUpgradeUndelivered(id) ==
  /\ UNCHANGED aside
  /\ id <= Len(upgrades)
  /\ users' = ApplyUpgrade(upgrades[id])
  /\ upgrades' = [upgrades EXCEPT ![id].status = "approved"]
  /\ last' = Response("approveUpgrade", id, upgrades[id].status, 500, "Server error")
  /\ UNCHANGED <<paymentMethods, withdrawals>>

\* ------------------------------------------------------- dashboard-update
RECURSIVE SumAvailable(_)
SumAvailable(us) ==
  IF us = {} THEN 0
  ELSE LET u == CHOOSE v \in us : TRUE
       IN users[u].balance.available + SumAvailable(us \ {u})

\* routes/admin.js:279-282: the sizes of Task.completions, summed; no handler
\* of the repository adds to a Task's completions
TaskCompletionsRecorded == 0

\* routes/admin.js:275-290: the payload emitDashboardUpdate computes from
\* the collections as they are when it runs
emitDashboardUpdate ==
  [ totalUsers |-> Cardinality(DOMAIN users),
    totalEarnings |-> SumAvailable(DOMAIN users),
    taskCompletions |-> TaskCompletionsRecorded,
    pendingWithdrawals |->
      Cardinality({id \in 1..Len(withdrawals) : withdrawals[id].status = "pending"}) ]

\* the handlers of routes/admin.js that call emitDashboardUpdate, as the
\* last statement before their response (:74, :112, :140)
DashboardEmitters == {"approve", "decline", "paid"}

\* the dashboard-update events the request just served has emitted
Broadcast ==
  IF last.op \in DashboardEmitters /\ last.code = 200
    THEN <<emitDashboardUpdate>>
    ELSE <<>>

\* ---------------------------------------------------------------- withRetry
\* adminController:717: the default arguments, retries = 3, delay = 1000
DefaultRetries == 3
DefaultDelay == 1000

\* the arguments a call can be given, and how a call of fn can settle: with
\* a value or with one of two errors
RetryCounts == 0..MaxRetries
Delays == {500, DefaultDelay}
Errors == {"e1", "e2"}
Outcomes == {"value"} \cup Errors

RECURSIVE Pow2(_)
Pow2(n) == IF n = 0 THEN 1 ELSE 2 * Pow2(n - 1)

\* a slip of the backoff: the same delay after every failure
BackoffConstant(delay, i) ==
  delay

\* adminController:723: delay * Math.pow(2, i)
Backoff(delay, i) ==
  delay * Pow2(i)

\* adminController:717-718: withRetry(fn, retries, delay) is called; the
\* loop starts with i = 0 and is not entered when retries is 0
CallWithRetry(retries, delay) ==
  /\ retry.pc \in {"idle", "returned", "thrown"}
  /\ retry' = [NoCall EXCEPT !.pc = IF 0 < retries THEN "call" ELSE "returned",
                              !.retries = retries, !.delay = delay,
                              !.result = IF 0 < retries THEN "" ELSE "undefined"]
  /\ UNCHANGED <<users, paymentMethods, withdrawals, upgrades, last, referrals, now,
                 handlers, requests, transactions, profiles>>

\* adminController:719-722: return await fn(); when fn rejects, the error is
\* thrown on if this was the last attempt
FnSettles(outcome) ==
  /\ retry.pc = "call"
  /\ retry' = [retry EXCEPT
        !.calls = Append(@, outcome),
        !.pc = IF outcome \notin Errors THEN "returned"
               ELSE IF retry.i = retry.retries - 1 THEN "thrown"
               ELSE "wait",
        !.result = IF outcome \in Errors /\ retry.i # retry.retries - 1 THEN "" ELSE outcome]
  /\ UNCHANGED <<users, paymentMethods, withdrawals, upgrades, last, referrals, now,
                 handlers, requests, transactions, profiles>>

\* adminController:723 and :718: the timer of the backoff fires, i++, and the
\* loop goes on while i < retries
TimerFires ==
  /\ retry.pc = "wait"
  /\ retry' = [retry EXCEPT
        !.slept = Append(@, Backoff(retry.delay, retry.i)),
        !.i = @ + 1,
        !.pc = IF retry.i + 1 < retry.retries THEN "call" ELSE "returned",
        !.result = IF retry.i + 1 < retry.retries THEN "" ELSE "undefined"]
  /\ UNCHANGED <<users, paymentMethods, withdrawals, upgrades, last, referrals, now,
                 handlers, requests, transactions, profiles>>

\* ------------------------------------------------- account status, profile
\* the status a request of the admin can carry: the enum and one value
\* outside it
StatusInputs == {"pending", "verified", "active", "suspended", "banned"}

\* adminController.updateUserStatus (:188)
updateUserStatus(u, status) ==
  /\ UNCHANGED aside
  /\ IF status \notin {"pending", "verified", "active", "suspended"}
       THEN /\ last' = Response("updateUserStatus", 0, "", 400, "Invalid status")
            /\ UNCHANGED <<users, paymentMethods, withdrawals, upgrades>>
     ELSE /\ users' = [users EXCEPT ![u].status = status]
          /\ last' = Response("updateUserStatus", 0, "", 200, "User status updated")
          /\ UNCHANGED <<paymentMethods, withdrawals, upgrades>>

\* the codes a verification request can carry: the codes sent to the users,
\* none ("") and one that was sent to nobody
CodeInputs == Users \cup {"", "000000"}

\* routes/user (part_009:1018): verify the email address
VerifyEmail(code) ==
  LET op(c, msg) == Response("verify-email", 0, "", c, msg)
      found == {v \in DOMAIN profiles : profiles[v].verificationCode = code}
  IN
  /\ UNCHANGED <<paymentMethods, withdrawals, upgrades, referrals, now, handlers,
                 requests, transactions, retry>>
  /\ IF code = ""
       THEN /\ last' = op(400, "Verification code is required")
            /\ UNCHANGED <<users, profiles>>
     ELSE IF found = {}
       THEN /\ last' = op(400, "Invalid verification code")
            /\ UNCHANGED <<users, profiles>>
     ELSE LET user == CHOOSE v \in found : TRUE IN
          /\ users' = [users EXCEPT ![user].status = "verified"]
          /\ profiles' = [profiles EXCEPT ![user].verificationCode = ""]
          /\ last' = IF EmailLogCreate("verification-complete")
                       THEN op(200, "Email verified successfully")
                       ELSE op(500, "Server error. Please try again.")

\* the usernames a profile update can carry ("" is none)
ProfileNames == Users \cup {"n1", ""}

\* adminController.updateUserProfile (:853), PUT: the username of the body
\* is assigned first (:861), so the comparison of :867 finds the two equal
\* and the branch that looks for the name and sets referralCode is skipped;
\* user.save() rejects a username another user has (unique index,
\* models/User.js:5)
updateUserProfile(u, username) ==
  LET op(code, msg) == Response("updateUserProfile", 0, "", code, msg)
      assigned == IF username # "" THEN username ELSE profiles[u].username
      taken(name) == \E v \in DOMAIN profiles :
                       profiles[v].username = name \/ profiles[v].referralCode = name
      duplicate(name) == \E v \in DOMAIN profiles \ {u} : profiles[v].username = name
  IN
  /\ UNCHANGED <<users, paymentMethods, withdrawals, upgrades, referrals, now, handlers,
                 requests, transactions, retry>>
  /\ IF username # "" /\ username # assigned
       THEN IF taken(username)
              THEN /\ last' = op(400, "Username or referral code already exists")
                   /\ UNCHANGED profiles
              ELSE /\ profiles' = [profiles EXCEPT ![u].username = username,
                                                   ![u].referralCode = username]
                   /\ last' = op(200, "Profile")
     ELSE IF duplicate(assigned)
       THEN /\ last' = op(500, "Server error")
            /\ UNCHANGED profiles
     ELSE /\ profiles' = [profiles EXCEPT ![u].username = assigned]
          /\ last' = op(200, "Profile")

\* ids an admin request can name: the existing records and one that does
\* not exist
WithdrawalIds == 1..(Len(withdrawals) + 1)
Existing == 1..Len(withdrawals)
UpgradeIds == 1..(Len(upgrades) + 1)

\* ------------------------------------------------------- specifications
\* The withdrawal handlers read and write only balances, payment methods
\* and withdrawals; the upgrade handlers only level, status and upgrades.
\* Spec is the ledger as server.js mounts it (routes/user, routes/admin);
\* SpecController is the same ledger with the admin
\* routes wired to adminController (part_007); SpecUpgrade is the upgrade
\* state machine (deposits of type upgrade or of no handled type, upgrade
\* requests, and the admin's decisions).
UserLedger ==
  \/ \E u \in Users : addPaymentMethod(u)
  \/ \E u \in Users, amount \in Amounts : RequestWithdrawal(u, amount)
  \/ \E u \in Users, amount \in Amounts :
       ConfirmDeposit(u, amount, "registration", 0)

Next ==
  \/ UserLedger
  \/ \E id \in WithdrawalIds : AdminApprove(id)
  \/ \E id \in WithdrawalIds : AdminDecline(id)
  \/ \E id \in WithdrawalIds : AdminPaid(id)

Spec == Init /\ [][Next]_vars

NextController ==
  \/ UserLedger
  \/ \E id \in WithdrawalIds : approveWithdrawal(id)
  \/ \E id \in WithdrawalIds : declineWithdrawal(id)
  \/ \E id \in WithdrawalIds : markWithdrawalAsPaid(id)

SpecController == Init /\ [][NextController]_vars

NextUpgrade ==
  \/ \E u \in Users, amount \in UpgradeAmounts, level \in LevelInputs :
       ConfirmDeposit(u, amount, "upgrade", level)
  \/ \E u \in Users, amount \in UpgradeAmounts :
       ConfirmDeposit(u, amount, "other", 0)
  \/ \E u \in Users, level \in LevelInputs, amount \in UpgradeAmounts :
       RequestUpgrade(u, level, amount)
  \/ \E id \in UpgradeIds : approveUpgrade(id)
  \/ \E id \in UpgradeIds : rejectUpgrade(id)

SpecUpgrade == Init /\ [][NextUpgrade]_vars

\* The ledger with the admin's approve and decline served as interleaved
\* steps of two requests at a time.
RaceAmounts == {1}

NextRace ==
  \/ \E u \in Users : addPaymentMethod(u)
  \/ \E u \in Users, amount \in RaceAmounts : RequestWithdrawal(u, amount)
  \/ \E u \in Users, amount \in RaceAmounts :
       ConfirmDeposit(u, amount, "registration", 0)
  \/ \E a \in Admins, op \in {"approve", "decline"}, id \in WithdrawalIds :
       Receive(a, op, id)
  \/ \E a \in Admins : ApproveSave(a)
  \/ \E a \in Admins : DeclineReadUser(a)
  \/ \E a \in Admins : DeclineSaveUser(a)
  \/ \E a \in Admins : DeclineSave(a)

SpecRace == Init /\ [][NextRace]_vars

\* The ledger over a persistence layer whose writes can reject.
NextFault ==
  \/ UserLedger
  \/ \E id \in WithdrawalIds : AdminApprove(id)
  \/ \E id \in WithdrawalIds : AdminDecline(id)
  \/ \E id \in WithdrawalIds : AdminPaid(id)
  \/ \E u \in Users, amount \in Amounts, failed \in Saves :
       RequestWithdrawalFault(u, amount, failed)
  \/ \E id \in Existing, failed \in Saves : DeclineFault(id, failed)
  \/ \E id \in Existing, failed \in Saves : PaidFault(id, failed)

SpecFault == Init /\ [][NextFault]_vars

\* The upgrade state machine and the earlier deposit handler over a mail
\* transport that can fail.
NextMail ==
  \/ \E u \in Users, level \in LevelInputs, amount \in UpgradeAmounts :
       RequestUpgrade(u, level, amount)
  \/ \E u \in Users, delivered \in BOOLEAN :
       DepositEarlier(u, 1, "registration", 0, delivered)
  \/ \E u \in Users, level \in LevelInputs, delivered \in BOOLEAN :
       DepositEarlier(u, 1, "upgrade", level, delivered)
  \/ \E u \in Users : DepositEarlier(u, 1, "other", 0, TRUE)
  \/ \E id \in UpgradeIds : approveUpgrade(id)
  \/ \E id \in UpgradeIds : approveUpgradeUndelivered(id)
  \/ \E id \in UpgradeIds : rejectUpgrade(id)

SpecMail == Init /\ [][NextMail]_vars

\* Calls of withRetry, one after the other.  fn settles every time it is
\* called and a timer that was set fires, so a call under way takes its next
\* step; nothing obliges a caller to call again.
NextRetry ==
  \/ \E retries \in RetryCounts, delay \in Delays : CallWithRetry(retries, delay)
  \/ \E outcome \in Outcomes : FnSettles(outcome)
  \/ TimerFires

SpecRetry ==
  /\ Init /\ [][NextRetry]_vars
  /\ WF_vars(\E outcome \in Outcomes : FnSettles(outcome))
  /\ WF_vars(TimerFires)

\* The account of a user: its status as the admin and the user's own
\* requests set it, and its profile.
NextAccount ==
  \/ \E u \in Users, status \in StatusInputs : updateUserStatus(u, status)
  \/ \E code \in CodeInputs : VerifyEmail(code)
  \/ \E u \in Users : ConfirmDeposit(u, 1, "registration", 0)
  \/ \E u \in Users, username \in ProfileNames : updateUserProfile(u, username)

SpecAccount == Init /\ [][NextAccount]_vars

\* The user's task completions and withdrawal requests served as interleaved
\* steps of two requests at a time.
ConcurrentAmounts == {1, 2}
ConcurrentRewards == {"0", "1"}

NextConcurrent ==
  \/ \E u \in Users : addPaymentMethod(u)
  \/ \E u \in Users, amount \in ConcurrentAmounts :
       ConfirmDeposit(u, amount, "registration", 0)
  \/ \E c \in Clients, u \in Users, reward \in ConcurrentRewards : TaskRead(c, u, reward)
  \/ \E c \in Clients : TaskSave(c)
  \/ \E c \in Clients, u \in Users, amount \in {0} \cup ConcurrentAmounts :
       WithdrawRead(c, u, amount)
  \/ \E c \in Clients : WithdrawSave(c)
  \/ \E c \in Clients : WithdrawSaveUser(c)

SpecConcurrent == Init /\ [][NextConcurrent]_vars

\* The operations that credit balance.available, with the clock.
NextCredit ==
  \/ Tick
  \/ \E u \in Users, reward \in Rewards : CompleteTask(u, reward)
  \/ \E u \in Users : CompleteTaskFixed(u)
  \/ \E u \in Users, amount \in Amounts :
       ConfirmDeposit(u, amount, "registration", 0)

SpecCredit == Init /\ [][NextCredit]_vars

\* Signup starts from an empty User collection; every signup handler of the
\* repository can be the one that serves a request.
InitSignup ==
  /\ users = [u \in {} |-> NewUser]
  /\ paymentMethods = {}
  /\ withdrawals = <<>>
  /\ upgrades = <<>>
  /\ last = Response("none", 0, "", 0, "")
  /\ referrals = <<>>
  /\ now = 0
  /\ handlers = [a \in Admins |-> Idle]
  /\ requests = [c \in Clients |-> NoRequest]
  /\ transactions = <<>>
  /\ retry = NoCall
  /\ profiles = [u \in DOMAIN users |-> NewProfile(u)]

NextSignup ==
  \/ \E username \in Usernames, referralCode \in ReferralCodes : Signup(username, referralCode)
  \/ \E username \in Usernames, referralCode \in ReferralCodes : registerUser(username, referralCode)
  \/ \E username \in Usernames, referralCode \in ReferralCodes : SignupLenient(username, referralCode)
  \/ \E username \in Usernames, referralCode \in ReferralCodes : SignupReferral(username, referralCode)

SpecSignup == InitSignup /\ [][NextSignup]_vars

\* =============================================================== claims
Available(u) == users[u].balance.available
Pending(u) == users[u].balance.pending
Owner(id) == withdrawals[id].user

\* sum of the amounts of u's Withdrawals among the first n that are still
\* reserved (pending or approved)
RECURSIVE Reserved(_, _)
Reserved(u, n) ==
  IF n = 0 THEN 0
  ELSE Reserved(u, n - 1)
       + (IF withdrawals[n].user = u /\ withdrawals[n].status \in {"pending", "approved"}
            THEN withdrawals[n].amount ELSE 0)

\* C1: in every reachable state every user's balance.available and
\* balance.pending are >= 0.
C1_BalanceNonNegative ==
  \A u \in Users : Available(u) >= 0 /\ Pending(u) >= 0

\* C2: in every reachable state a user's balance.pending equals the sum of
\* the amounts of that user's Withdrawals in status pending or approved.
C2_PendingEqualsReserved ==
  \A u \in Users : Pending(u) = Reserved(u, Len(withdrawals))

\* C3: a withdrawal request of x, 0 < x <= available, by a user with a
\* payment method moves x from available to pending and creates a pending
\* Withdrawal; approving that pending Withdrawal changes no balance and makes
\* it approved; marking the approved Withdrawal paid takes its amount off
\* pending, leaves available alone and makes it paid.
C3_WithdrawalLifecycle ==
  [][ /\ \A u \in Users, x \in Amounts :
           (/\ x > 0 /\ x <= Available(u) /\ u \in paymentMethods
            /\ RequestWithdrawal(u, x))
           => /\ users'[u].balance.available = Available(u) - x
              /\ users'[u].balance.pending = Pending(u) + x
              /\ \A v \in Users \ {u} : users'[v] = users[v]
              /\ withdrawals' = Append(withdrawals, [user |-> u, amount |-> x, status |-> "pending"])
      /\ \A id \in Existing :
           (withdrawals[id].status = "pending" /\ AdminApprove(id))
           => /\ users' = users
              /\ withdrawals' = [withdrawals EXCEPT ![id].status = "approved"]
      /\ \A id \in Existing :
           (withdrawals[id].status = "approved" /\ AdminPaid(id))
           => /\ users'[Owner(id)].balance.pending = Pending(Owner(id)) - withdrawals[id].amount
              /\ users'[Owner(id)].balance.available = Available(Owner(id))
              /\ \A v \in Users \ {Owner(id)} : users'[v] = users[v]
              /\ withdrawals' = [withdrawals EXCEPT ![id].status = "paid"]
    ]_vars

\* an approved Withdrawal has just been marked paid
C3_Witness ==
  /\ last.op = "paid" /\ last.from = "approved" /\ last.code = 200
  /\ withdrawals[last.id].status = "paid"
  /\ withdrawals[last.id].amount > 0

\* C4: a withdrawal request whose amount is <= 0 or exceeds available is
\* rejected with a 400: no Withdrawal is created and no balance changes.
C4_InvalidAmountRejected ==
  [][ \A u \in Users, x \in Amounts :
        ((x <= 0 \/ x > Available(u)) /\ RequestWithdrawal(u, x))
        => /\ last'.code = 400
           /\ last'.msg \in {"Amount is required", "Insufficient balance or invalid amount"}
           /\ (x # 0 => last'.msg = "Insufficient balance or invalid amount")
           /\ withdrawals' = withdrawals
           /\ users' = users
    ]_vars

\* a request was rejected for its amount while the user had a payment
\* method and some Withdrawal already reserved funds
C4_Witness ==
  /\ last.op = "withdrawal" /\ last.code = 400
  /\ last.msg = "Insufficient balance or invalid amount"
  /\ \E u \in Users : u \in paymentMethods /\ Available(u) = 0 /\ Pending(u) > 0

\* C5: approving a Withdrawal that is already approved fails and changes
\* neither a balance nor the Withdrawal's status.
C5_ReapproveFails ==
  [][ \A id \in Existing :
        (withdrawals[id].status = "approved" /\ AdminApprove(id))
        => /\ last'.code # 200
           /\ users' = users
           /\ withdrawals' = withdrawals
    ]_vars

\* C6: declining a pending Withdrawal of amount A adds A to the owner's
\* available and takes A off pending; a decline of a declined Withdrawal
\* fails and leaves the balances alone.
C6_DeclineOnce ==
  [][ \A id \in Existing :
        /\ (withdrawals[id].status = "pending" /\ AdminDecline(id))
           => /\ users'[Owner(id)].balance.available = Available(Owner(id)) + withdrawals[id].amount
              /\ users'[Owner(id)].balance.pending = Pending(Owner(id)) - withdrawals[id].amount
        /\ (withdrawals[id].status = "declined" /\ AdminDecline(id))
           => /\ last'.code # 200
              /\ users' = users
    ]_vars

\* C7: mark-paid on a pending Withdrawal fails; its status and the balances
\* are unchanged.
C7_PaidNeedsApproved ==
  [][ \A id \in Existing :
        (withdrawals[id].status = "pending" /\ markWithdrawalAsPaid(id))
        => /\ last'.code # 200
           /\ users' = users
           /\ withdrawals' = withdrawals
    ]_vars

\* C8: every change of a Withdrawal's status is pending->approved,
\* pending->declined or approved->paid.
C8_StatusTransitions ==
  [][ \A id \in Existing :
        withdrawals'[id].status # withdrawals[id].status
        => <<withdrawals[id].status, withdrawals'[id].status>>
             \in {<<"pending", "approved">>, <<"pending", "declined">>, <<"approved", "paid">>}
    ]_vars

\* C9: decline of an approved or paid Withdrawal fails and leaves the
\* balances alone.
C9_DeclineNeedsPending ==
  [][ \A id \in Existing :
        (withdrawals[id].status \in {"approved", "paid"} /\ AdminDecline(id))
        => /\ last'.code # 200
           /\ users' = users
    ]_vars

\* C10: approving a pending Upgrade sets the owner's level to the Upgrade's
\* level and the owner's status to active and marks the Upgrade approved;
\* rejecting a pending Upgrade marks it rejected and changes no user.
C10_UpgradeDecision ==
  [][ \A id \in 1..Len(upgrades) :
        /\ (upgrades[id].status = "pending" /\ approveUpgrade(id))
           => /\ users'[upgrades[id].user].level = upgrades[id].level
              /\ users'[upgrades[id].user].status = "active"
              /\ users'[upgrades[id].user].balance = users[upgrades[id].user].balance
              /\ \A v \in Users \ {upgrades[id].user} : users'[v] = users[v]
              /\ upgrades' = [upgrades EXCEPT ![id].status = "approved"]
        /\ (upgrades[id].status = "pending" /\ rejectUpgrade(id))
           => /\ users' = users
              /\ upgrades' = [upgrades EXCEPT ![id].status = "rejected"]
    ]_vars

\* a pending Upgrade has just been rejected, its owner still not active
\* and below the level asked for, and another Upgrade, approved, has
\* given its owner its level
C10_Witness ==
  /\ last.op = "rejectUpgrade" /\ last.from = "pending" /\ last.code = 200
  /\ upgrades[last.id].status = "rejected"
  /\ users[upgrades[last.id].user].status = "pending"
  /\ users[upgrades[last.id].user].level < upgrades[last.id].level
  /\ \E id \in 1..Len(upgrades) :
       /\ upgrades[id].status = "approved"
       /\ users[upgrades[id].user].level = upgrades[id].level
       /\ users[upgrades[id].user].level > 1
       /\ users[upgrades[id].user].status = "active"

\* C11: approve or reject of an Upgrade that is already approved or rejected
\* fails and leaves the Upgrade's status and every user unchanged.
C11_UpgradeTerminal ==
  [][ \A id \in 1..Len(upgrades) :
        (/\ upgrades[id].status \in {"approved", "rejected"}
         /\ (approveUpgrade(id) \/ rejectUpgrade(id)))
        => /\ last'.code # 200
           /\ upgrades' = upgrades
           /\ users' = users
    ]_vars

\* C12: every Upgrade record, at the step that creates it, has a level
\* strictly greater than its owner's level before that step.
C12_UpgradeLevelExceeds ==
  [][ Len(upgrades') = Len(upgrades) + 1
        => upgrades'[Len(upgrades')].level
             > users[upgrades'[Len(upgrades')].user].level
    ]_vars

\* C13: a step that changes a user's level is the approval of an Upgrade.
C13_LevelOnlyByApproval ==
  [][ (\E u \in Users : users'[u].level # users[u].level)
        => \E id \in 1..Len(upgrades) : approveUpgrade(id)
    ]_vars

\* some signup handler serves the request (username, referralCode)
AnySignup(username, referralCode) ==
  \/ Signup(username, referralCode)
  \/ registerUser(username, referralCode)
  \/ SignupLenient(username, referralCode)
  \/ SignupReferral(username, referralCode)

\* the Referral records of the pair (a, b)
ReferralsOf(a, b) ==
  {i \in 1..Len(referrals) :
     /\ referrals[i].referrer = a
     /\ "referredUser" \in DOMAIN referrals[i]
     /\ referrals[i].referredUser = b}

\* C14: when a new user b signs up with a referral code that resolves to a,
\* a's invites grows by exactly 1 and a's referralBonus by exactly 1000, and
\* no other user's invites or referralBonus changes.
C14_ReferrerCredited ==
  [][ \A b \in Usernames \ DOMAIN users, a \in DOMAIN users :
        AnySignup(b, a)
        => /\ b \in DOMAIN users'
           /\ users'[a].invites = users[a].invites + 1
           /\ users'[a].referralBonus = users[a].referralBonus + ReferralBonus
           /\ \A v \in DOMAIN users \ {a} :
                /\ users'[v].invites = users[v].invites
                /\ users'[v].referralBonus = users[v].referralBonus
    ]_vars

\* C15: after the signup of b with a referral code that resolves to a there
\* is exactly one Referral record of the pair (a, b), and no state holds two
\* Referral records of one pair.
C15_OneReferralPerPair ==
  [][ /\ \A b \in Usernames \ DOMAIN users, a \in DOMAIN users :
           (AnySignup(b, a) /\ b \in DOMAIN users')
           => Cardinality(ReferralsOf(a, b)') = 1
      /\ \A a \in Usernames, b \in Usernames : Cardinality(ReferralsOf(a, b)') <= 1
    ]_vars

\* C16: a signup whose referral code resolves to no user is refused: no User
\* is created and no invites or referralBonus changes.
C16_UnknownCodeRefused ==
  [][ \A b \in Usernames, c \in ReferralCodes \ {""} :
        (c \notin DOMAIN users /\ AnySignup(b, c))
        => /\ last'.code = 400
           /\ users' = users
    ]_vars

\* C17: a withdrawal request by a user without a payment method is refused
\* with a 400, creates no Withdrawal and changes no balance; when the amount
\* itself is acceptable the answer is "No payment method found".
C17_NoPaymentMethodRejected ==
  [][ \A u \in Users, x \in Amounts :
        (u \notin paymentMethods /\ RequestWithdrawal(u, x))
        => /\ last'.code = 400
           /\ (x > 0 /\ x <= Available(u) => last'.msg = "No payment method found")
           /\ withdrawals' = withdrawals
           /\ users' = users
    ]_vars

\* a request with an acceptable amount has just been refused for the lack
\* of a payment method, while another user does own one
C17_Witness ==
  /\ last.op = "withdrawal" /\ last.code = 400
  /\ last.msg = "No payment method found"
  /\ paymentMethods # {}
  /\ \E u \in Users \ paymentMethods : Available(u) > 0
  /\ withdrawals = <<>>

\* C18: every operation that credits balance.available refuses an amount
\* <= 0 and leaves the balance alone, so no such operation lowers available.
C18_CreditIsPositive ==
  [][ \A u \in Users :
        /\ \A x \in Amounts :
             (x <= 0 /\ ConfirmDeposit(u, x, "registration", 0))
             => last'.code = 400 /\ users' = users
        /\ \A r \in Rewards :
             (ToNumber(r) <= 0 /\ CompleteTask(u, r))
             => last'.code = 400 /\ users' = users
        /\ users'[u].balance.available >= Available(u)
    ]_vars

\* some handler of POST /tasks serves the request of u
AnyCompleteTask(u, reward) ==
  CompleteTask(u, reward) \/ CompleteTaskFixed(u)

\* C19: a task completion on the date already in lastTaskDate fails and
\* leaves tasksCompleted, available and lastTaskDate alone; one on another
\* date adds 1 to tasksCompleted, credits the reward and sets lastTaskDate
\* to that date.  So each user is credited at most once per date.
C19_OncePerDate ==
  [][ \A u \in Users, r \in Rewards :
        (ToNumber(r) > 0 /\ AnyCompleteTask(u, r))
        => IF users[u].lastTaskDate = ISODate(now)
             THEN /\ last'.code = 400
                  /\ users'[u] = users[u]
             ELSE /\ users'[u].tasksCompleted = users[u].tasksCompleted + 1
                  /\ users'[u].balance.available
                       \in {Available(u) + parseFloat(r), Available(u) + TaskReward}
                  /\ users'[u].lastTaskDate = ISODate(now)
    ]_vars

\* C20: of the approve/decline requests that found one Withdrawal pending
\* and run interleaved, at most one succeeds: a request that answers 200
\* writes a record that is still pending; and when such a decline
\* completes, the owner's pending balance is the sum still reserved (the
\* amount was released once).
C20_OneTransitionWins ==
  [][ \A a \in Admins :
        (/\ handlers[a].status = "pending"
         /\ (ApproveSave(a) \/ DeclineSave(a)))
        => /\ withdrawals[handlers[a].id].status = "pending"
           /\ handlers[a].op = "decline"
              => users[handlers[a].user].balance.pending
                   = Reserved(handlers[a].user, Len(withdrawals)) - handlers[a].amount
    ]_vars

\* the balance of c's user is the one c read with a reservation applied:
\* a withdrawal request reserved an amount after c read the user
ReservedSince(c) ==
  \E id \in Existing :
    /\ withdrawals[id].user = requests[c].user
    /\ Available(requests[c].user) = requests[c].available - withdrawals[id].amount
    /\ Pending(requests[c].user) = requests[c].pending + withdrawals[id].amount

\* the user of c is the one c read with a task credit applied: a task
\* completion was credited after c read the user
CreditedSince(c) ==
  \E reward \in ConcurrentRewards :
    /\ users[requests[c].user].tasksCompleted = requests[c].tasksCompleted + 1
    /\ Available(requests[c].user) = requests[c].available + parseFloat(reward)
    /\ Pending(requests[c].user) = requests[c].pending

\* C21: when a task credit of r and a withdrawal reservation of x run
\* interleaved on one user, the write of the one that finishes last keeps
\* the other's update: available becomes a + r - x and pending p + x.
C21_NoLostUpdate ==
  [][ \A c \in Clients :
        /\ (TaskSave(c) /\ ReservedSince(c))
           => /\ users'[requests[c].user].balance.available
                   = Available(requests[c].user) + parseFloat(requests[c].reward)
              /\ users'[requests[c].user].balance.pending = Pending(requests[c].user)
        /\ (WithdrawSaveUser(c) /\ CreditedSince(c))
           => /\ users'[requests[c].user].balance.available
                   = Available(requests[c].user) - requests[c].amount
              /\ users'[requests[c].user].balance.pending
                   = Pending(requests[c].user) + requests[c].amount
    ]_vars

\* C22: of the withdrawal requests of one user that run interleaved, no more
\* is accepted than the balance covers: once none of the user's requests is
\* in flight, the amounts of the user's pending and approved Withdrawals sum
\* to no more than was moved from available to pending.
C22_ReservedWithinDebit ==
  \A u \in Users :
    (\A c \in Clients : requests[c].pc = "idle" \/ requests[c].user # u)
    => Reserved(u, Len(withdrawals)) <= Pending(u)

\* C23: a withdrawal transition (create, decline, mark-paid) one of whose
\* two writes rejects leaves neither written: the Withdrawal collection and
\* the balances are as they were before the request.
C23_BothWritesOrNone ==
  [][ \A failed \in Saves :
        /\ \A u \in Users, amount \in Amounts :
             RequestWithdrawalFault(u, amount, failed)
             => withdrawals' = withdrawals /\ users' = users
        /\ \A id \in Existing :
             (DeclineFault(id, failed) \/ PaidFault(id, failed))
             => withdrawals' = withdrawals /\ users' = users
    ]_vars

\* C24: a mail that cannot be sent does not fail the transition around it:
\* the upgrade approval or deposit confirmation answers 200 and its state
\* change is saved as when the mail is sent.
C24_MailFailureSwallowed ==
  [][ /\ \A id \in 1..Len(upgrades) :
           approveUpgradeUndelivered(id)
           => /\ last'.code = 200
              /\ upgrades'[id].status = "approved"
              /\ users' = ApplyUpgrade(upgrades[id])
      /\ \A u \in Users, amount \in {1}, level \in LevelInputs :
           /\ DepositEarlier(u, amount, "registration", level, FALSE)
              => /\ last'.code = 200
                 /\ users'[u].status = "active"
                 /\ users'[u].balance.available = Available(u) + amount
           /\ DepositEarlier(u, amount, "upgrade", level, FALSE)
              => /\ last'.code = 200
                 /\ Len(upgrades') = Len(upgrades) + 1
    ]_vars

\* C25: a decline or a mark-paid of a Withdrawal whose amount exceeds its
\* owner's balance.pending is answered with an error and changes neither
\* the balances nor the Withdrawal.
C25_PendingCoversAmount ==
  [][ \A id \in Existing :
        (/\ Pending(Owner(id)) < withdrawals[id].amount
         /\ (AdminDecline(id) \/ AdminPaid(id)))
        => /\ last'.code # 200
           /\ users' = users
           /\ withdrawals' = withdrawals
    ]_vars

\* the Transaction status that goes with a Withdrawal status (the claim
\* names none for paid)
MirrorStatus(status) ==
  CASE status = "pending" -> {"pending"}
    [] status = "approved" -> {"completed"}
    [] status = "declined" -> {"failed"}
    [] OTHER -> {"pending", "completed", "failed"}

\* C26: every Withdrawal has a Transaction of its own with the same user,
\* the negated amount and type Withdrawal, whose status goes with the
\* Withdrawal's: pending, completed once approved, failed once declined.
C26_MirroredTransaction ==
  \E mirror \in [Existing -> 1..Len(transactions)] :
    /\ \A i, j \in Existing : mirror[i] = mirror[j] => i = j
    /\ \A id \in Existing :
         /\ transactions[mirror[id]].user = withdrawals[id].user
         /\ transactions[mirror[id]].amount = -withdrawals[id].amount
         /\ transactions[mirror[id]].type = "Withdrawal"
         /\ transactions[mirror[id]].status \in MirrorStatus(withdrawals[id].status)

RECURSIVE SumTasksCompleted(_)
SumTasksCompleted(us) ==
  IF us = {} THEN 0
  ELSE LET u == CHOOSE v \in us : TRUE
       IN users[u].tasksCompleted + SumTasksCompleted(us \ {u})

\* the counters of the state: users, available balances summed, task
\* completions, Withdrawals pending
DashboardCounters ==
  [ totalUsers |-> Cardinality(DOMAIN users),
    totalEarnings |-> SumAvailable(DOMAIN users),
    taskCompletions |-> SumTasksCompleted(DOMAIN users),
    pendingWithdrawals |-> Cardinality({id \in Existing : withdrawals[id].status = "pending"}) ]

\* C27: a request that creates a Withdrawal or changes a Withdrawal's status
\* emits one dashboard-update whose payload holds the counters of the state
\* it leaves.
C27_DashboardFollows ==
  [][ withdrawals' # withdrawals => Broadcast' = <<DashboardCounters'>> ]_vars

\* a call with the default policy
DefaultPolicy ==
  retry.retries = DefaultRetries /\ retry.delay = DefaultDelay

\* what holds of a call with the default policy at every step
RetryBounded ==
  DefaultPolicy =>
    /\ Len(retry.calls) <= 3
    /\ \A k \in 1..(Len(retry.calls) - 1) : retry.calls[k] \in Errors
    /\ retry.slept \in {<<>>, <<1000>>, <<1000, 2000>>}
    /\ retry.pc = "call" => Len(retry.slept) = Len(retry.calls)
    /\ retry.pc = "wait" => Len(retry.slept) = Len(retry.calls) - 1
    /\ retry.pc = "returned"
         => /\ retry.calls[Len(retry.calls)] \notin Errors
            /\ retry.result = retry.calls[Len(retry.calls)]
            /\ Len(retry.slept) = Len(retry.calls) - 1
    /\ retry.pc = "thrown"
         => /\ Len(retry.calls) = 3
            /\ retry.result = retry.calls[3]
            /\ retry.slept = <<1000, 2000>>

\* C28: withRetry(fn) with the default policy calls fn at most 3 times,
\* returns the value of the first call that succeeds and calls no more,
\* waits 1000 ms after the first failure and 2000 ms after the second, throws
\* the third error without a further wait, and so ends whenever fn settles.
C28_RetryTerminates ==
  /\ []RetryBounded
  /\ (DefaultPolicy /\ retry.pc \in {"call", "wait"})
       ~> (retry.pc \in {"returned", "thrown"})

\* three calls have failed under the default policy: both waits were made
\* and the third error is thrown
C28_Witness ==
  /\ DefaultPolicy
  /\ retry.pc = "thrown"
  /\ retry.calls = <<"e1", "e2", "e1">>
  /\ retry.slept = <<1000, 2000>>
  /\ retry.result = "e1"

\* the requests only an admin can make
AdminOps == {"updateUserStatus", "approveUpgrade", "rejectUpgrade"}

\* C29: the status of a suspended user changes only through a request of
\* an admin; no request of the user takes the account out of suspended.
C29_SuspendedStays ==
  [][ \A u \in Users :
        (users[u].status = "suspended" /\ users'[u].status # "suspended")
        => last'.op \in AdminOps
    ]_vars

\* C30: referralCode equals username for every user at all times, and a
\* profile update to a name that is another user's username or referralCode
\* is refused and changes nothing.
C30_ReferralCodeIsUsername ==
  /\ [](\A u \in DOMAIN profiles : profiles[u].referralCode = profiles[u].username)
  /\ [][ \A u \in Users, name \in ProfileNames \ {""} :
           (/\ updateUserProfile(u, name)
            /\ \E v \in Users \ {u} :
                 profiles[v].username = name \/ profiles[v].referralCode = name)
           => last'.code # 200 /\ profiles' = profiles
       ]_vars
====
